---- MODULE Spec2Model ----
(***************************************************************************)
(* gimli: a host-metrics daemon.  Four mine() threads sample the kernel    *)
(* and write the global `gimli` record; a listener accepts TCP connections *)
(* and starts one detached handler thread per connection, which reads the  *)
(* record and renders JSON.  No lock guards the record, so every shared    *)
(* read and write below is a step of its own.                              *)
(***************************************************************************)
EXTENDS Integers, Sequences, FiniteSets, TLC

\* ---------------------------------------------------------------- bounds
\* Longest interface enumeration getifaddrs() returns in the model.
MaxEnum == 3
\* Number of get_netif() cycles the NetIf sampler runs in the model.
MaxCycles == 2
\* Number of connections (handler threads) in the model.
MaxConns == 2
\* Largest value of one /proc/stat counter in the model.
MaxTick == 1
\* Largest sum of the five counters of one /proc/stat sample in the model.
MaxTotal == 2
\* Fraction bits kept of a long double quotient in the model.
MantissaBits == 16
\* Longest /proc/loadavg line of the model, in fields.
MaxFields == 3
\* Largest number of processors of the host in the model.
MaxCores == 1
\* Largest number of whole days of uptime sysinfo() reports in the model.
MaxDays == 1
\* AF_INET nodes getifaddrs lists, for the length of the rendered list.
MaxIfaces == 57

\* ------------------------------------------------------- program constants
\* Capacity of gimli.net[] (declared in gimli.h).
MAX_NETIFS == 2

\* char buf[1024] in handle_connection.
BufSize == 1024

\* char output[2048] in handle_connection.
OutputSize == 2048

G_OK == "G_OK"
G_FAIL == "G_FAIL"

\* ------------------------------------------------------------------ state
VARIABLES
    gimli,      \* the global stats record (gimli.c:10)
    spill,      \* memory past the end of gimli.net[], by index
    overrun,    \* a store past the end of gimli.net[] has happened
    mineCpu,    \* gimli_mine_cpu thread: position and get_cpu_util locals
    mineLoad,   \* gimli_mine_load thread: position and get_loadavg result
    mineNet,    \* gimli_mine_netif thread: position and get_netif locals
    cycles,     \* history: the complete interface list of every get_netif cycle begun
    mainPc,     \* main thread: position in main() and handle_connections()
    ncpu,       \* what sysconf(_SC_NPROCESSORS_CONF) returns on this host
    conn,       \* handler threads, one per connection
    mineMem,    \* gimli_mine_meminfo thread: position and get_meminfo locals
    localfd,    \* handle_connections: the int localfd handed to new threads by address
    watch,      \* the sampler thread followed on its own, or none
    fill,       \* handle_request filling output: position, count and strlen(output)
    rx          \* handle_connection receiving: length, last byte, index of the terminator

vars == <<gimli, spill, overrun, mineCpu, mineLoad, mineNet, cycles,
          mainPc, ncpu, conn,
          mineMem,
          localfd,
          watch,
          fill,
          rx>>

Handlers == 1..MaxConns

\* exit(1), and main's return, end the process and every thread with it.
Running == mainPc \notin {"exit1", "exit0"}

\* ------------------------------------------------------------ long double
\* A long double is modelled in fixed point: v counts units of 2^-MantissaBits;
\* nan marks the result of 0/0.
Unit == 2 ^ MantissaBits

LD(x) == [nan |-> FALSE, v |-> x]

NaN == [nan |-> TRUE, v |-> 0]

\* n/d rounded to the nearest integer, for n >= 0 and d > 0.
RoundDiv(n, d) == (2 * n + d) \div (2 * d)

\* The long double quotient a / b of two non-negative counters.
LDiv(a, b) == IF b = 0 THEN NaN ELSE LD(RoundDiv(a * Unit, b))

\* The long double product x * k, k an integer.
LMul(x, k) == IF x.nan THEN NaN ELSE LD(x.v * k)

\* ------------------------------------------------------------- the record
CpuIdx == {"CPU_USER", "CPU_NICE", "CPU_SYSTEM", "CPU_IDLE", "CPU_IOWAIT"}

LoadIdx == 0..2

NetIdx == 0..(MAX_NETIFS - 1)

MemIdx == {"TOTAL_RAM", "FREE_RAM", "SHARED_RAM", "BUFFER_RAM", "TOTAL_SWAP",
           "FREE_SWAP", "TOTAL_HIGH", "FREE_HIGH", "MEM_UNIT"}

ZeroEntry == [ifname |-> "", ipv4 |-> ""]

\* The zero-initialised global.
ZeroGimli ==
    [cpu    |-> [c \in CpuIdx |-> LD(0)],
     load   |-> [k \in LoadIdx |-> 0],
     meminfo |-> [k \in MemIdx |-> 0],
     uptime |-> 0,
     procs  |-> 0,
     cores  |-> 0,
     netifs |-> 0,
     net    |-> [k \in NetIdx |-> ZeroEntry]]

\* --------------------------------------------------------- NetIf sampler
\* The ifaddrs nodes of the host, in the order getifaddrs() lists them: one
\* node per (interface, address).
IfaOrder ==
    << [name |-> "lo",   family |-> "AF_INET",  addr |-> "127.0.0.1"],
       [name |-> "eth0", family |-> "AF_INET",  addr |-> "10.0.0.2"],
       [name |-> "eth0", family |-> "AF_INET6", addr |-> "fe80::2"],
       [name |-> "eth1", family |-> "AF_INET",  addr |-> "10.0.0.3"] >>

SeqsUpTo(S, n) == UNION {[1..k -> S] : k \in 0..n}

\* The nodes of IfaOrder at the positions in S, in order.
RECURSIVE PickSeq(_)
PickSeq(S) ==
    IF S = {} THEN <<>>
    ELSE LET m == CHOOSE x \in S : \A y \in S : x <= y
         IN  <<IfaOrder[m]>> \o PickSeq(S \ {m})

\* The interface lists of the model: the nodes that are up, at most MaxEnum.
Enumerations ==
    {PickSeq(S) : S \in {T \in SUBSET DOMAIN IfaOrder : Cardinality(T) <= MaxEnum}}

\* ifa->ifa_addr && ifa->ifa_addr->sa_family == AF_INET
IsInet(e) == e.family # "NULL" /\ e.family = "AF_INET"

SpillIdx == MAX_NETIFS..(MaxEnum - 1)

\* The entry at gimli.net[k]; past the array it is whatever memory holds there.
LoadNet(k) == IF k \in NetIdx THEN gimli.net[k] ELSE spill[k]

\* sprintf(gimli->net[k].<f>, "%s", val).  gimli.net[] has MAX_NETIFS slots and
\* get_netif never compares k with it: a store at k >= MAX_NETIFS goes past the
\* array, which is undefined; the bytes either stay where they landed or are
\* lost to whatever owns that memory.
StoreNet(k, f, val) ==
    IF k \in NetIdx
    THEN /\ gimli' = [gimli EXCEPT !.net[k][f] = val]
         /\ UNCHANGED <<spill, overrun>>
    ELSE /\ \E kept \in BOOLEAN :
                spill' = IF kept THEN [spill EXCEPT ![k][f] = val] ELSE spill
         /\ overrun' = TRUE
         /\ UNCHANGED gimli

\* The interface list a reader of the snapshot sees: netifs entries from net[].
SnapshotList == [k \in 1..gimli.netifs |-> LoadNet(k - 1)]

\* The entries (name, address) get_netif stores for a list, in order.
RECURSIVE Ipv4List(_)
Ipv4List(l) ==
    IF l = <<>> THEN <<>>
    ELSE (IF IsInet(Head(l))
          THEN <<[ifname |-> Head(l).name, ipv4 |-> Head(l).addr]>>
          ELSE <<>>) \o Ipv4List(Tail(l))

\* gimli_mine_netif calls get_netif: getifaddrs() fails, or returns a list.
NetCall ==
    /\ Running
    /\ mineNet.pc = "call"
    /\ mineNet.n < MaxCycles
    /\ \/ /\ mineNet' = [mineNet EXCEPT !.pc = "sleep", !.ret = G_FAIL,
                                        !.n = @ + 1, !.pre = SnapshotList]
          /\ UNCHANGED cycles
       \/ \E l \in Enumerations :
              /\ mineNet' = [mineNet EXCEPT !.pc = "zero", !.ifaddr = l, !.ifa = 1,
                                            !.n = @ + 1, !.pre = SnapshotList]
              /\ cycles' = cycles \cup {Ipv4List(l)}
    /\ UNCHANGED <<gimli, spill, overrun, mineCpu, mineLoad, mainPc, ncpu, conn, mineMem, localfd,
                   watch, fill, rx>>

\* gimli->netifs = 0;
NetZero ==
    /\ Running
    /\ mineNet.pc = "zero"
    /\ gimli' = [gimli EXCEPT !.netifs = 0]
    /\ mineNet' = [mineNet EXCEPT !.pc = "ifname"]
    /\ UNCHANGED <<spill, overrun, mineCpu, mineLoad, cycles,
                   mainPc, ncpu, conn, mineMem, localfd, watch, fill, rx>>

\* The for loop's test and the start of its body: at the end of the list
\* freeifaddrs and return G_OK; an AF_INET node has its name stored at
\* net[netifs]; any other node is skipped.
NetIfname ==
    /\ Running
    /\ mineNet.pc = "ifname"
    /\ IF mineNet.ifa > Len(mineNet.ifaddr)
       THEN /\ mineNet' = [mineNet EXCEPT !.pc = "sleep", !.ret = G_OK]
            /\ UNCHANGED <<gimli, spill, overrun>>
       ELSE IF IsInet(mineNet.ifaddr[mineNet.ifa])
       THEN /\ StoreNet(gimli.netifs, "ifname", mineNet.ifaddr[mineNet.ifa].name)
            /\ mineNet' = [mineNet EXCEPT !.pc = "ipv4"]
       ELSE /\ mineNet' = [mineNet EXCEPT !.ifa = @ + 1]
            /\ UNCHANGED <<gimli, spill, overrun>>
    /\ UNCHANGED <<mineCpu, mineLoad, cycles, mainPc, ncpu, conn, mineMem, localfd, watch, fill,
                   rx>>

\* getnameinfo(): on failure return G_FAIL at once; otherwise store the
\* numeric address at net[netifs].
NetIpv4 ==
    /\ Running
    /\ mineNet.pc = "ipv4"
    /\ \/ /\ mineNet' = [mineNet EXCEPT !.pc = "sleep", !.ret = G_FAIL]
          /\ UNCHANGED <<gimli, spill, overrun>>
       \/ /\ StoreNet(gimli.netifs, "ipv4", mineNet.ifaddr[mineNet.ifa].addr)
          /\ mineNet' = [mineNet EXCEPT !.pc = "incr"]
    /\ UNCHANGED <<mineCpu, mineLoad, cycles, mainPc, ncpu, conn, mineMem, localfd, watch, fill,
                   rx>>

\* gimli->netifs++; and the loop's ifa = ifa->ifa_next.
NetIncr ==
    /\ Running
    /\ mineNet.pc = "incr"
    /\ gimli' = [gimli EXCEPT !.netifs = @ + 1]
    /\ mineNet' = [mineNet EXCEPT !.pc = "ifname", !.ifa = @ + 1]
    /\ UNCHANGED <<spill, overrun, mineCpu, mineLoad, cycles,
                   mainPc, ncpu, conn, mineMem, localfd, watch, fill, rx>>

\* Back in gimli_mine_netif: the result is logged, sleep(1), loop.
NetSleep ==
    /\ Running
    /\ mineNet.pc = "sleep"
    /\ mineNet' = [mineNet EXCEPT !.pc = "call"]
    /\ UNCHANGED <<gimli, spill, overrun, mineCpu, mineLoad, cycles,
                   mainPc, ncpu, conn, mineMem, localfd, watch, fill, rx>>

\* ------------------------------------------------------------- requests
\* Request text is a sequence of characters.
GET_CPU    == <<"G","E","T"," ","/","c","p","u">>
GET_LOAD   == <<"G","E","T"," ","/","l","o","a","d">>
GET_UPTIME == <<"G","E","T"," ","/","u","p","t","i","m","e">>
GET_PROCS  == <<"G","E","T"," ","/","p","r","o","c","s">>
GET_CORES  == <<"G","E","T"," ","/","c","o","r","e","s">>
GET_NET    == <<"G","E","T"," ","/","n","e","t">>
GET_ROOT   == <<"G","E","T"," ","/"," ","H","T","T","P">>

NUL == "NUL"

\* The character of C string s at 1-based position k; the terminator after it.
CharAt(s, k) == IF k <= Len(s) THEN s[k] ELSE NUL

\* strncmp(a, b, n): 0 when the first n characters agree, comparing no
\* further than a terminator; non-zero otherwise.
strncmp(a, b, n) ==
    IF \A k \in 1..n :
          (\A j \in 1..(k - 1) : CharAt(a, j) # NUL) => CharAt(a, k) = CharAt(b, k)
    THEN 0 ELSE 1

\* sizeof of a string literal: its characters and the terminator.
SizeOf(lit) == Len(lit) + 1

\* The chain with its last comparison made over "GET /" alone.
RouteCatchAll(buf) ==
    IF strncmp(buf, GET_CPU, SizeOf(GET_CPU) - 2) = 0 THEN "cpu"
    ELSE IF strncmp(buf, GET_LOAD, SizeOf(GET_LOAD) - 2) = 0 THEN "load"
    ELSE IF strncmp(buf, GET_UPTIME, SizeOf(GET_UPTIME) - 2) = 0 THEN "uptime"
    ELSE IF strncmp(buf, GET_PROCS, SizeOf(GET_PROCS) - 2) = 0 THEN "procs"
    ELSE IF strncmp(buf, GET_CORES, SizeOf(GET_CORES) - 2) = 0 THEN "cores"
    ELSE IF strncmp(buf, GET_NET, SizeOf(GET_NET) - 2) = 0 THEN "net"
    ELSE IF strncmp(buf, GET_ROOT, 5) = 0 THEN "root"
    ELSE "err"

\* The if/else-if chain of handle_request: the branch taken for buf.
Route(buf) ==
    IF strncmp(buf, GET_CPU, SizeOf(GET_CPU) - 2) = 0 THEN "cpu"
    ELSE IF strncmp(buf, GET_LOAD, SizeOf(GET_LOAD) - 2) = 0 THEN "load"
    ELSE IF strncmp(buf, GET_UPTIME, SizeOf(GET_UPTIME) - 2) = 0 THEN "uptime"
    ELSE IF strncmp(buf, GET_PROCS, SizeOf(GET_PROCS) - 2) = 0 THEN "procs"
    ELSE IF strncmp(buf, GET_CORES, SizeOf(GET_CORES) - 2) = 0 THEN "cores"
    ELSE IF strncmp(buf, GET_NET, SizeOf(GET_NET) - 2) = 0 THEN "net"
    ELSE IF strncmp(buf, GET_ROOT, SizeOf(GET_ROOT) - 2) = 0 THEN "root"
    ELSE "err"

\* ------------------------------------------------------------- rendering
\* Rendered text is a sequence of pieces, in the order printf emits them.

\* "%.1Lf"
Fmt1Lf(x) ==
    IF x.nan THEN <<"nan">>
    ELSE LET t == RoundDiv(x.v * 10, Unit)
         IN  <<ToString(t \div 10), ".", ToString(t % 10)>>

\* "%.2f" of a load average, held in hundredths.
Fmt2f(v) == <<ToString(v \div 100), ".", ToString((v % 100) \div 10), ToString(v % 10)>>

\* "%02lu"
Fmt02lu(v) == IF v < 10 THEN <<"0", ToString(v)>> ELSE <<ToString(v)>>

\* The cpu object's members, in the order both cpu renderings print them:
\* "us":%.1Lf, in the cpu object and "us": %.1Lf,\n in the aggregate.
CpuMembers(colon, sep) ==
    <<"\"us\"", colon>> \o Fmt1Lf(gimli.cpu["CPU_USER"]) \o <<sep>> \o
    <<"\"sy\"", colon>> \o Fmt1Lf(gimli.cpu["CPU_SYSTEM"]) \o <<sep>> \o
    <<"\"id\"", colon>> \o Fmt1Lf(gimli.cpu["CPU_IDLE"]) \o <<sep>> \o
    <<"\"wa\"", colon>> \o Fmt1Lf(gimli.cpu["CPU_IOWAIT"]) \o <<sep>> \o
    <<"\"ni\"", colon>> \o Fmt1Lf(gimli.cpu["CPU_NICE"])

LoadMembers ==
    Fmt2f(gimli.load[0]) \o <<", ">> \o Fmt2f(gimli.load[1]) \o <<", ">> \o
    Fmt2f(gimli.load[2])

\* The members with the hours printed as gimli.uptime/3600.
UptimeMembersTotalHours ==
    <<ToString(gimli.uptime \div 86400), ", ",
      ToString(gimli.uptime \div 3600), ", ">> \o
    Fmt02lu((gimli.uptime \div 60) % 60)

\* gimli.uptime/86400, gimli.uptime/3600%24, gimli.uptime/60%60 under
\* "%lu, %01lu, %02lu"
UptimeMembers ==
    <<ToString(gimli.uptime \div 86400), ", ",
      ToString((gimli.uptime \div 3600) % 24), ", ">> \o
    Fmt02lu((gimli.uptime \div 60) % 60)

ERR_BODY == <<"{\"err\": 1}\r\n">>

\* The text handle_request leaves in output when it returns from a branch
\* that has no interface loop, and the text before the loop for the two that have.
Render(route) ==
    CASE route = "cpu" ->
            <<"{\"cpu\":{">> \o CpuMembers(":", ",") \o <<"}}\r\n">>
      [] route = "load" ->
            <<"{\"load\":[">> \o LoadMembers \o <<"]}\r\n">>
      [] route = "uptime" ->
            <<"{\"uptime\":[">> \o UptimeMembers \o <<"]}\r\n">>
      [] route = "procs" ->
            <<"{\"procs\":", ToString(gimli.procs % 65536), "}\r\n">>
      [] route = "cores" ->
            <<"{\"cores\":", ToString(gimli.cores), "}\r\n">>
      [] route = "net" ->
            <<"{\"netifs\":[">>
      [] route = "root" ->
            <<"{\n    \"cpu\": {\n        ">> \o CpuMembers(": ", ",\n        ") \o
            <<"\n    },\n    \"load\": [">> \o LoadMembers \o
            <<"],\n    \"uptime\": [">> \o UptimeMembers \o
            <<"],\n    \"procs\": ", ToString(gimli.procs % 65536),
              ",\n    \"cores\": ", ToString(gimli.cores), ",\n",
              "    \"netifs\": [">>
      [] OTHER -> ERR_BODY

\* IFNAME_JSON, IFNAME_PRETTY_FIRST_JSON and IFNAME_PRETTY_JSON (gimli.h)
\* applied to one interface: the object's opening, then name and address.
IfnameJson(route, i, name, addr) ==
    <<(IF route = "net" THEN "{"
       ELSE IF i = 0 THEN "\n        {" ELSE "{"),
      "\"ifname\":\"", name, "\",\"ipv4\":\"", addr, "\"}">>

\* The separator and the closing text of the two interface loops.
NetSeparator(route) == IF route = "net" THEN "," ELSE ", "

NetClosing(route) == IF route = "net" THEN "]}\r\n" ELSE "]\n}\r\n"

\* ------------------------------------------------------ connection handler
\* What one recv() can deliver.
RecvData ==
    { GET_CPU \o <<"\n">>, GET_LOAD, GET_UPTIME, GET_PROCS, GET_CORES \o <<"\n">>,
      GET_NET, GET_ROOT \o <<"/","1",".","1","\r","\n">>,
      <<"G","E","T"," ","/","u","n","k","n","o","w","n">>,
      <<"G","E","T"," ","/","c","p","x">>,
      <<"G","E","T"," ","/">>,
      <<"P","U","T"," ","/","c","p","u">>,
      <<"\n">> }

\* Trim trailing newline: buf[len-1] = '\0' when it is '\n', else buf[len] = '\0'.
Trim(d) == IF d[Len(d)] = "\n" THEN SubSeq(d, 1, Len(d) - 1) ELSE d

\* The index of buf that is given '\0' after a recv() of len bytes of which
\* the last is the byte last.
TermIndex(len, last) == IF last = "\n" THEN len - 1 ELSE len

IdleRx == [pc |-> "idle", len |-> 0, last |-> "", nul |-> 0]

\* len = recv(fd, buf, sizeof (buf), 0) with len > 0.
RxRecv ==
    /\ rx.pc = "recv"
    /\ \E len \in 1..BufSize, last \in {"\n", "\r", "1"} :
          rx' = [rx EXCEPT !.pc = "trim", !.len = len, !.last = last]
    /\ UNCHANGED <<gimli, spill, overrun, mineCpu, mineLoad, mineNet, cycles,
                   mainPc, ncpu, conn, mineMem, localfd, watch, fill>>

\* if (buf[len-1] == '\n') buf[len-1] = '\0'; else buf[len] = '\0';
RxTrim ==
    /\ rx.pc = "trim"
    /\ rx' = [rx EXCEPT !.pc = "trimmed", !.nul = TermIndex(rx.len, rx.last)]
    /\ UNCHANGED <<gimli, spill, overrun, mineCpu, mineLoad, mineNet, cycles,
                   mainPc, ncpu, conn, mineMem, localfd, watch, fill>>

\* A handler thread h and the connection accepted for it.  Of the thread: its
\* position, its locals fd, buf and output, handle_request's i, and the calls
\* it has made on its descriptor.  Of the connection: the descriptor accept()
\* returned for it (own) and whether that descriptor is still open.
IdleConn ==
    [pc |-> "idle", fd |-> 0, buf |-> <<>>, route |-> "", output |-> <<>>,
     i |-> 0, name |-> "", calls |-> <<>>, own |-> 0, open |-> FALSE]

\* return (void *) {0}: the thread ends and its locals with it; the calls it
\* made and the state of its connection's descriptor remain.
Return(c) ==
    [IdleConn EXCEPT !.pc = "done", !.calls = c.calls, !.open = c.open,
                     !.own = IF c.open THEN c.own ELSE 0]

\* The descriptors of connections that are open in the process.
OpenFds == {conn[h].own : h \in {k \in Handlers : conn[k].open}}

\* accept() returns the lowest descriptor that is not open; descriptors are
\* counted from the first one above the listening socket's.
LowestFree ==
    CHOOSE n \in 1..(MaxConns + 1) :
        n \notin OpenFds /\ \A m \in 1..(n - 1) : m \in OpenFds

\* The connections after close(fd): the one that holds descriptor fd, if
\* any, is closed.
CloseFd(cs, fd) ==
    [c \in Handlers |->
        IF cs[c].open /\ cs[c].own = fd THEN [cs[c] EXCEPT !.open = FALSE]
        ELSE cs[c]]

\* One turn of the accept loop with a connection accepted: newfd is stored
\* in localfd and a detached thread is created with localfd's address.  The
\* h-th connection accepted is the one of handler h.
Accept(h) ==
    /\ mainPc = "accept"
    /\ conn[h].pc = "idle"
    /\ \A k \in 1..(h - 1) : conn[k].pc # "idle"
    /\ localfd' = LowestFree
    /\ conn' = [conn EXCEPT ![h].pc = "start", ![h].own = LowestFree,
                            ![h].open = TRUE]
    /\ UNCHANGED <<gimli, spill, overrun, mineCpu, mineLoad, mineNet, cycles,
                   mainPc, ncpu, mineMem, watch, fill, rx>>

\* accept() returns -1: the loop goes round.
AcceptFail ==
    /\ mainPc = "accept"
    /\ UNCHANGED vars

\* accept() returns descriptor 0, which it can when nothing holds that
\* descriptor: the while condition is false, the listening socket is
\* closed, handle_connections returns and main returns 0.
AcceptZero ==
    /\ mainPc = "accept"
    /\ mainPc' = "exit0"
    /\ UNCHANGED <<gimli, spill, overrun, mineCpu, mineLoad, mineNet, cycles,
                   ncpu, conn, mineMem, localfd, watch, fill, rx>>

\* fd = *((int *) arg): the thread reads localfd when it gets to run.  The
\* variable's block has ended by then; its slot in the frame of
\* handle_connections holds the value the loop stored last.
Start(h) ==
    /\ Running
    /\ conn[h].pc = "start"
    /\ conn' = [conn EXCEPT ![h].pc = "recv", ![h].fd = localfd]
    /\ UNCHANGED <<gimli, spill, overrun, mineCpu, mineLoad, mineNet, cycles,
                   mainPc, ncpu, mineMem, localfd, watch, fill, rx>>

\* len = recv(fd, buf, sizeof (buf), 0); return when len <= 0; trim.
Recv(h) ==
    /\ Running
    /\ conn[h].pc = "recv"
    /\ \/ conn' = [conn EXCEPT ![h] = Return([@ EXCEPT !.calls = <<"recv">>])]
       \/ \E d \in RecvData :
              conn' = [conn EXCEPT ![h].pc = "preamble", ![h].buf = Trim(d),
                                   ![h].calls = <<"recv">>]
    /\ UNCHANGED <<gimli, spill, overrun, mineCpu, mineLoad, mineNet, cycles,
                   mainPc, ncpu, mineMem, localfd, watch, fill, rx>>

\* The status line and header are sent; return when send() fails.
SendPreamble(h) ==
    /\ Running
    /\ conn[h].pc = "preamble"
    /\ \/ conn' = [conn EXCEPT ![h] = Return(@)]
       \/ conn' = [conn EXCEPT ![h].pc = "route",
                               ![h].calls = Append(@, "send preamble")]
    /\ UNCHANGED <<gimli, spill, overrun, mineCpu, mineLoad, mineNet, cycles,
                   mainPc, ncpu, mineMem, localfd, watch, fill, rx>>

\* handle_request clearing the process count it has rendered.
HandleRequestClearing(h) ==
    /\ Running
    /\ conn[h].pc = "route"
    /\ LET r == Route(conn[h].buf)
       IN  conn' = [conn EXCEPT ![h].route = r,
                                ![h].output = Render(r),
                                ![h].i = 0,
                                ![h].pc = IF r \in {"net", "root"}
                                          THEN "net_test" ELSE "send"]
    /\ gimli' = [gimli EXCEPT !.procs = 0]
    /\ UNCHANGED <<spill, overrun, mineCpu, mineLoad, mineNet, cycles,
                   mainPc, ncpu, mineMem, localfd, watch, fill, rx>>

\* handle_request up to its return, or up to the first test of an interface loop.
HandleRequest(h) ==
    /\ Running
    /\ conn[h].pc = "route"
    /\ LET r == Route(conn[h].buf)
       IN  conn' = [conn EXCEPT ![h].route = r,
                                ![h].output = Render(r),
                                ![h].i = 0,
                                ![h].pc = IF r \in {"net", "root"}
                                          THEN "net_test" ELSE "send"]
    /\ UNCHANGED <<gimli, spill, overrun, mineCpu, mineLoad, mineNet, cycles,
                   mainPc, ncpu, mineMem, localfd, watch, fill, rx>>

\* for (...; i<gimli.netifs; ...): enter the body, or leave and close the array.
NetTest(h) ==
    /\ Running
    /\ conn[h].pc = "net_test"
    /\ conn' = IF conn[h].i < gimli.netifs
               THEN [conn EXCEPT ![h].pc = "net_ifname"]
               ELSE [conn EXCEPT ![h].pc = "send",
                                 ![h].output = Append(@, NetClosing(conn[h].route))]
    /\ UNCHANGED <<gimli, spill, overrun, mineCpu, mineLoad, mineNet, cycles,
                   mainPc, ncpu, mineMem, localfd, watch, fill, rx>>

\* sprintf copies gimli.net[i].ifname ...
NetReadName(h) ==
    /\ Running
    /\ conn[h].pc = "net_ifname"
    /\ conn' = [conn EXCEPT ![h].pc = "net_ipv4",
                            ![h].name = LoadNet(conn[h].i).ifname]
    /\ UNCHANGED <<gimli, spill, overrun, mineCpu, mineLoad, mineNet, cycles,
                   mainPc, ncpu, mineMem, localfd, watch, fill, rx>>

\* ... and then gimli.net[i].ipv4.
NetReadAddr(h) ==
    /\ Running
    /\ conn[h].pc = "net_ipv4"
    /\ conn' = [conn EXCEPT ![h].pc = "net_sep",
                            ![h].output = @ \o IfnameJson(conn[h].route, conn[h].i,
                                             conn[h].name, LoadNet(conn[h].i).ipv4)]
    /\ UNCHANGED <<gimli, spill, overrun, mineCpu, mineLoad, mineNet, cycles,
                   mainPc, ncpu, mineMem, localfd, watch, fill, rx>>

\* if (i+1 < gimli.netifs) append the separator; then i++.
NetSep(h) ==
    /\ Running
    /\ conn[h].pc = "net_sep"
    /\ conn' = [conn EXCEPT ![h].pc = "net_test",
                            ![h].i = @ + 1,
                            ![h].output = IF conn[h].i + 1 < gimli.netifs
                                          THEN Append(@, NetSeparator(conn[h].route))
                                          ELSE @]
    /\ UNCHANGED <<gimli, spill, overrun, mineCpu, mineLoad, mineNet, cycles,
                   mainPc, ncpu, mineMem, localfd, watch, fill, rx>>

\* The body sent twice over.
SendBodyTwice(h) ==
    /\ Running
    /\ conn[h].pc = "send"
    /\ \/ conn' = [conn EXCEPT ![h] = Return(@)]
       \/ conn' = [conn EXCEPT ![h].pc = "close",
                               ![h].calls = @ \o <<"send body", "send body">>]
    /\ UNCHANGED <<gimli, spill, overrun, mineCpu, mineLoad, mineNet, cycles,
                   mainPc, ncpu, mineMem, localfd, watch, fill, rx>>

\* The body is sent; return when send() fails.
SendBody(h) ==
    /\ Running
    /\ conn[h].pc = "send"
    /\ \/ conn' = [conn EXCEPT ![h] = Return(@)]
       \/ conn' = [conn EXCEPT ![h].pc = "close",
                               ![h].calls = Append(@, "send body")]
    /\ UNCHANGED <<gimli, spill, overrun, mineCpu, mineLoad, mineNet, cycles,
                   mainPc, ncpu, mineMem, localfd, watch, fill, rx>>

\* if (fd > 0) { shutdown(fd, SHUT_RDWR); close(fd); } return.
Close(h) ==
    /\ Running
    /\ conn[h].pc = "close"
    /\ conn' = IF conn[h].fd > 0
               THEN LET cs == CloseFd(conn, conn[h].fd)
                    IN  [cs EXCEPT ![h] = Return([@ EXCEPT
                                              !.calls = Append(@, "close")])]
               ELSE [conn EXCEPT ![h] = Return(@)]
    /\ UNCHANGED <<gimli, spill, overrun, mineCpu, mineLoad, mineNet, cycles,
                   mainPc, ncpu, mineMem, localfd, watch, fill, rx>>

\* A handler's steps outside the body of the interface loops.
Handler(h) ==
    \/ Accept(h) \/ Start(h) \/ Recv(h) \/ SendPreamble(h) \/ HandleRequest(h)
    \/ NetTest(h) \/ SendBody(h) \/ Close(h)

\* The body of the interface loops.
NetLoop(h) == NetReadName(h) \/ NetReadAddr(h) \/ NetSep(h)

\* ------------------------------------------------- the length of output
\* strlen() of a text held as a sequence of pieces.
RECURSIVE strlen(_)
strlen(out) == IF out = <<>> THEN 0 ELSE Len(Head(out)) + strlen(Tail(out))

\* What snprintf(output, size, ...) leaves of a text of n characters.
Bounded(n, size) == IF n < size THEN n ELSE size - 1

\* The name and address get_netif stores for an AF_INET node.
Stored ==
    {[ifname |-> IfaOrder[k].name, ipv4 |-> IfaOrder[k].addr] :
        k \in {j \in DOMAIN IfaOrder : IsInet(IfaOrder[j])}}

IdleFill == [pc |-> "idle", route |-> "", netifs |-> 0, i |-> 0, len |-> 0]

\* Where a write that left len characters in output has ended: inside the
\* array with its terminator, or past the end.
After(len, pc) == IF len + 1 > OutputSize THEN "overrun" ELSE pc

\* The snprintf calls before the interface loop of the two list branches.
FillOpen ==
    /\ fill.pc = "open"
    /\ \E r \in {"net", "root"} :
          fill' = [fill EXCEPT !.pc = "test", !.route = r, !.i = 0,
                               !.len = Bounded(strlen(Render(r)), OutputSize)]
    /\ UNCHANGED <<gimli, spill, overrun, mineCpu, mineLoad, mineNet, cycles,
                   mainPc, ncpu, conn, mineMem, localfd, watch, rx>>

\* i < gimli.netifs: sprintf(output+strlen(output), IFNAME_JSON, ...) appends
\* one entry, whatever the room left.
FillEntry ==
    /\ fill.pc = "test"
    /\ fill.i < fill.netifs
    /\ \E e \in Stored :
          LET n == fill.len + strlen(IfnameJson(fill.route, fill.i, e.ifname, e.ipv4))
          IN  fill' = [fill EXCEPT !.len = n, !.pc = After(n, "sep")]
    /\ UNCHANGED <<gimli, spill, overrun, mineCpu, mineLoad, mineNet, cycles,
                   mainPc, ncpu, conn, mineMem, localfd, watch, rx>>

\* if (i+1 < gimli.netifs) sprintf(output+strlen(output), ","); then i++.
FillSep ==
    /\ fill.pc = "sep"
    /\ LET n == IF fill.i + 1 < fill.netifs
                THEN fill.len + Len(NetSeparator(fill.route)) ELSE fill.len
       IN  fill' = [fill EXCEPT !.len = n, !.i = @ + 1, !.pc = After(n, "test")]
    /\ UNCHANGED <<gimli, spill, overrun, mineCpu, mineLoad, mineNet, cycles,
                   mainPc, ncpu, conn, mineMem, localfd, watch, rx>>

\* The loop is left: sprintf(output+strlen(output), "]}\r\n").
FillClose ==
    /\ fill.pc = "test"
    /\ ~(fill.i < fill.netifs)
    /\ LET n == fill.len + Len(NetClosing(fill.route))
       IN  fill' = [fill EXCEPT !.len = n, !.pc = After(n, "done")]
    /\ UNCHANGED <<gimli, spill, overrun, mineCpu, mineLoad, mineNet, cycles,
                   mainPc, ncpu, conn, mineMem, localfd, watch, rx>>

\* ------------------------------------------------------------ CPU sampler
\* One parsed first line of /proc/stat: user, nice, system, idle, iowait.
CpuFields == {"u", "n", "s", "i", "w"}

Samples ==
    {s \in [CpuFields -> 0..MaxTick] : s.u + s.n + s.s + s.i + s.w <= MaxTotal}

ZeroSample == [f \in CpuFields |-> 0]

\* The delta taken as new.x - old.x, without the comparison.
DiffSigned(new, old) == new - old

\* new.x > old.x ? new.x - old.x : old.x - new.x
Diff(new, old) == IF new > old THEN new - old ELSE old - new

\* The five values get_cpu_util stores for two samples: each delta divided
\* by the sum of the deltas, times 100.
CpuUtil(old, new) ==
    LET diff == [f \in CpuFields |-> Diff(new[f], old[f])]
        tot  == diff.u + diff.n + diff.s + diff.i + diff.w
    IN  [c \in CpuIdx |->
            LMul(LDiv(diff[CASE c = "CPU_USER" -> "u"
                             [] c = "CPU_NICE" -> "n"
                             [] c = "CPU_SYSTEM" -> "s"
                             [] c = "CPU_IDLE" -> "i"
                             [] c = "CPU_IOWAIT" -> "w"], tot), 100)]

\* gimli_mine_cpu starts: gimli.cores = sysconf(_SC_NPROCESSORS_CONF);
CpuInit ==
    /\ Running
    /\ mineCpu.pc = "init"
    /\ gimli' = [gimli EXCEPT !.cores = ncpu]
    /\ mineCpu' = [mineCpu EXCEPT !.pc = "poll1"]
    /\ UNCHANGED <<spill, overrun, mineLoad, mineNet, cycles,
                   mainPc, ncpu, conn, mineMem, localfd, watch, fill, rx>>

\* get_cpu_util, first poll: fopen, fgets or sscanf fails and it returns
\* G_FAIL, or the sample is in old.
CpuPoll1 ==
    /\ Running
    /\ mineCpu.pc = "poll1"
    /\ \/ mineCpu' = [mineCpu EXCEPT !.pc = "loop", !.ret = G_FAIL]
       \/ \E s \in Samples : mineCpu' = [mineCpu EXCEPT !.pc = "sleep", !.old = s]
    /\ UNCHANGED <<gimli, spill, overrun, mineLoad, mineNet, cycles,
                   mainPc, ncpu, conn, mineMem, localfd, watch, fill, rx>>

\* usleep(3000000);
CpuSleep ==
    /\ Running
    /\ mineCpu.pc = "sleep"
    /\ mineCpu' = [mineCpu EXCEPT !.pc = "poll2"]
    /\ UNCHANGED <<gimli, spill, overrun, mineLoad, mineNet, cycles,
                   mainPc, ncpu, conn, mineMem, localfd, watch, fill, rx>>

\* Second poll: fgets or sscanf fails and it returns G_FAIL, or the sample
\* is in new.
CpuPoll2 ==
    /\ Running
    /\ mineCpu.pc = "poll2"
    /\ \/ mineCpu' = [mineCpu EXCEPT !.pc = "loop", !.ret = G_FAIL]
       \/ \E s \in Samples : mineCpu' = [mineCpu EXCEPT !.pc = "calc", !.new = s]
    /\ UNCHANGED <<gimli, spill, overrun, mineLoad, mineNet, cycles,
                   mainPc, ncpu, conn, mineMem, localfd, watch, fill, rx>>

\* fclose fails and it returns G_FAIL; or the deltas and their sum are
\* computed, the five percentages stored and it returns G_OK.
CpuCalc ==
    /\ Running
    /\ mineCpu.pc = "calc"
    /\ \/ /\ mineCpu' = [mineCpu EXCEPT !.pc = "loop", !.ret = G_FAIL]
          /\ UNCHANGED gimli
       \/ /\ mineCpu' = [mineCpu EXCEPT !.pc = "loop", !.ret = G_OK]
          /\ gimli' = [gimli EXCEPT !.cpu = CpuUtil(mineCpu.old, mineCpu.new)]
    /\ UNCHANGED <<spill, overrun, mineLoad, mineNet, cycles, mainPc, ncpu, conn, mineMem,
                   localfd, watch, fill, rx>>

\* gimli_mine_cpu leaving its loop when get_cpu_util has failed.
CpuLoopBreak ==
    /\ Running
    /\ mineCpu.pc = "loop"
    /\ mineCpu' = [mineCpu EXCEPT !.pc = IF mineCpu.ret = G_OK THEN "poll1"
                                         ELSE "ended",
                                  !.old = ZeroSample, !.new = ZeroSample]
    /\ UNCHANGED <<gimli, spill, overrun, mineLoad, mineNet, cycles,
                   mainPc, ncpu, conn, mineMem, localfd, watch, fill, rx>>

\* Back in gimli_mine_cpu: a failure is logged; the loop calls again at once,
\* and the call starts with old = {0}, new = {0}.
CpuLoop ==
    /\ Running
    /\ mineCpu.pc = "loop"
    /\ mineCpu' = [mineCpu EXCEPT !.pc = "poll1", !.old = ZeroSample,
                                  !.new = ZeroSample]
    /\ UNCHANGED <<gimli, spill, overrun, mineLoad, mineNet, cycles,
                   mainPc, ncpu, conn, mineMem, localfd, watch, fill, rx>>

\* ----------------------------------------------------------- Load sampler
\* A field of the /proc/loadavg line: a decimal number (in hundredths) or
\* text that "%f" does not convert.
LoadTokens ==
    { [num |-> TRUE, v |-> 10], [num |-> TRUE, v |-> 20],
      [num |-> TRUE, v |-> 30], [num |-> FALSE, v |-> 0] }

LoadLines == SeqsUpTo(LoadTokens, MaxFields)

\* The number of leading fields of the line that LOAD_FMT converts: sscanf
\* stops at the first field that is no number, and after the third.
RECURSIVE Converted(_, _)
Converted(line, want) ==
    IF want = 0 \/ line = <<>> \/ ~Head(line).num THEN 0
    ELSE 1 + Converted(Tail(line), want - 1)

\* sscanf's return value: EOF (-1) when the input ends before any conversion.
Sscanf(line, want) == IF line = <<>> THEN 0 - 1 ELSE Converted(line, want)

\* sscanf(buf, LOAD_FMT, &load[0], &load[1], &load[2]) stores each converted
\* field straight into the snapshot.
LoadAfter(load, line) ==
    [k \in LoadIdx |-> IF k < Converted(line, 3) THEN line[k + 1].v ELSE load[k]]

\* get_loadavg: fopen or fgets fails; or the line is scanned into gimli.load,
\* and fewer than 2 conversions, or a failing fclose, return G_FAIL.
LoadCall ==
    /\ Running
    /\ mineLoad.pc = "call"
    /\ \/ /\ mineLoad' = [mineLoad EXCEPT !.pc = "sleep", !.ret = G_FAIL,
                                          !.line = <<>>, !.read = FALSE]
          /\ UNCHANGED gimli
       \/ \E line \in LoadLines, closed \in BOOLEAN :
              /\ gimli' = [gimli EXCEPT !.load = LoadAfter(@, line)]
              /\ mineLoad' = [mineLoad EXCEPT
                                !.pc = "sleep", !.line = line, !.read = TRUE,
                                !.ret = IF Sscanf(line, 3) < 2 THEN G_FAIL
                                        ELSE IF closed THEN G_OK ELSE G_FAIL]
    /\ UNCHANGED <<spill, overrun, mineCpu, mineNet, cycles,
                   mainPc, ncpu, conn, mineMem, localfd, watch, fill, rx>>

\* Back in gimli_mine_load: a failure is logged, sleep(1), loop.
LoadSleep ==
    /\ Running
    /\ mineLoad.pc = "sleep"
    /\ mineLoad' = [mineLoad EXCEPT !.pc = "call"]
    /\ UNCHANGED <<gimli, spill, overrun, mineCpu, mineNet, cycles,
                   mainPc, ncpu, conn, mineMem, localfd, watch, fill, rx>>

\* --------------------------------------------------------- Memory sampler
\* Uptimes sysinfo() reports: whole days, and hours, minutes and seconds near
\* the ends of their ranges (the record starts with uptime 0).
Uptimes ==
    {d * 86400 + h * 3600 + m * 60 + sec :
        d \in 0..MaxDays, h \in {1, 23}, m \in {1, 59}, sec \in {1, 59}}

\* What sysinfo() fills struct sysinfo with.
SysInfos ==
    [totalram : {4096}, freeram : {1024}, sharedram : {0}, bufferram : {512},
     totalswap : {1024}, freeswap : {1024}, totalhigh : {0}, freehigh : {0},
     mem_unit : {4096}, procs : {200}, uptime : Uptimes]

\* (meminfo.x * meminfo.mem_unit) / 1024
Kilobytes(x, unit) == (x * unit) \div 1024

\* The nine values get_meminfo stores in gimli->meminfo[].
MemInfo(m) ==
    [k \in MemIdx |->
        CASE k = "TOTAL_RAM"  -> Kilobytes(m.totalram, m.mem_unit)
          [] k = "FREE_RAM"   -> Kilobytes(m.freeram, m.mem_unit)
          [] k = "SHARED_RAM" -> Kilobytes(m.sharedram, m.mem_unit)
          [] k = "BUFFER_RAM" -> Kilobytes(m.bufferram, m.mem_unit)
          [] k = "TOTAL_SWAP" -> Kilobytes(m.totalswap, m.mem_unit)
          [] k = "FREE_SWAP"  -> Kilobytes(m.freeswap, m.mem_unit)
          [] k = "TOTAL_HIGH" -> Kilobytes(m.totalhigh, m.mem_unit)
          [] k = "FREE_HIGH"  -> Kilobytes(m.freehigh, m.mem_unit)
          [] k = "MEM_UNIT"   -> m.mem_unit]

\* get_meminfo: sysinfo() fails and it returns G_FAIL, or fills meminfo.
MemCall ==
    /\ Running
    /\ mineMem.pc = "call"
    /\ \/ mineMem' = [mineMem EXCEPT !.pc = "sleep", !.ret = G_FAIL]
       \/ \E m \in SysInfos : mineMem' = [mineMem EXCEPT !.pc = "ram", !.meminfo = m]
    /\ UNCHANGED <<gimli, spill, overrun, mineCpu, mineLoad, mineNet, cycles,
                   mainPc, ncpu, conn, localfd, watch, fill, rx>>

\* gimli->meminfo[TOTAL_RAM] = ...; through gimli->meminfo[MEM_UNIT] = ...;
MemStoreRam ==
    /\ Running
    /\ mineMem.pc = "ram"
    /\ gimli' = [gimli EXCEPT !.meminfo = MemInfo(mineMem.meminfo)]
    /\ mineMem' = [mineMem EXCEPT !.pc = "procs"]
    /\ UNCHANGED <<spill, overrun, mineCpu, mineLoad, mineNet, cycles,
                   mainPc, ncpu, conn, localfd, watch, fill, rx>>

\* gimli->procs = meminfo.procs;
MemStoreProcs ==
    /\ Running
    /\ mineMem.pc = "procs"
    /\ gimli' = [gimli EXCEPT !.procs = mineMem.meminfo.procs]
    /\ mineMem' = [mineMem EXCEPT !.pc = "uptime"]
    /\ UNCHANGED <<spill, overrun, mineCpu, mineLoad, mineNet, cycles,
                   mainPc, ncpu, conn, localfd, watch, fill, rx>>

\* gimli->uptime = meminfo.uptime; return (G_OK);
MemStoreUptime ==
    /\ Running
    /\ mineMem.pc = "uptime"
    /\ gimli' = [gimli EXCEPT !.uptime = mineMem.meminfo.uptime]
    /\ mineMem' = [mineMem EXCEPT !.pc = "sleep", !.ret = G_OK]
    /\ UNCHANGED <<spill, overrun, mineCpu, mineLoad, mineNet, cycles,
                   mainPc, ncpu, conn, localfd, watch, fill, rx>>

\* Back in gimli_mine_meminfo: a failure is logged, sleep(1), loop.
MemSleep ==
    /\ Running
    /\ mineMem.pc = "sleep"
    /\ mineMem' = [mineMem EXCEPT !.pc = "call"]
    /\ UNCHANGED <<gimli, spill, overrun, mineCpu, mineLoad, mineNet, cycles,
                   mainPc, ncpu, conn, localfd, watch, fill, rx>>

\* ------------------------------------------------------------ main thread
\* thread_create_detached(&gimli_mine_cpu, NULL);
MainCreateCpu ==
    /\ mainPc = "create_cpu"
    /\ mainPc' = "create_load"
    /\ mineCpu' = [mineCpu EXCEPT !.pc = "init"]
    /\ UNCHANGED <<gimli, spill, overrun, mineLoad, mineNet, cycles, ncpu, conn, mineMem, localfd,
                   watch, fill, rx>>

\* thread_create_detached(&gimli_mine_load, NULL);
MainCreateLoad ==
    /\ mainPc = "create_load"
    /\ mainPc' = "create_meminfo"
    /\ mineLoad' = [mineLoad EXCEPT !.pc = "call"]
    /\ UNCHANGED <<gimli, spill, overrun, mineCpu, mineNet, cycles, ncpu, conn, mineMem, localfd,
                   watch, fill, rx>>

\* thread_create_detached(&gimli_mine_meminfo, NULL);
MainCreateMeminfo ==
    /\ mainPc = "create_meminfo"
    /\ mainPc' = "create_netif"
    /\ mineMem' = [mineMem EXCEPT !.pc = "call"]
    /\ UNCHANGED <<gimli, spill, overrun, mineCpu, mineLoad, mineNet, cycles,
                   ncpu, conn, localfd, watch, fill, rx>>

\* thread_create_detached(&gimli_mine_netif, NULL);
MainCreateNetif ==
    /\ mainPc = "create_netif"
    /\ mainPc' = "socket"
    /\ mineNet' = [mineNet EXCEPT !.pc = "call"]
    /\ UNCHANGED <<gimli, spill, overrun, mineCpu, mineLoad, cycles, ncpu, conn, mineMem, localfd,
                   watch, fill, rx>>

\* handle_connections: socket, setsockopt, bind, listen; any failure is exit(1).
Listen ==
    /\ mainPc = "socket"
    /\ mainPc' \in {"accept", "exit1"}
    /\ UNCHANGED <<gimli, spill, overrun, mineCpu, mineLoad, mineNet, cycles,
                   ncpu, conn, mineMem, localfd, watch, fill, rx>>

\* ------------------------------------------------------------ initial states
IdleNet == [pc |-> "idle", ifaddr |-> <<>>, ifa |-> 1, ret |-> G_OK, n |-> 0,
            pre |-> <<>>]

IdleCpu == [pc |-> "idle", old |-> ZeroSample, new |-> ZeroSample, ret |-> G_OK]

IdleLoad == [pc |-> "idle", ret |-> G_OK, line |-> <<>>, read |-> FALSE]

ZeroSysInfo ==
    [totalram |-> 0, freeram |-> 0, sharedram |-> 0, bufferram |-> 0,
     totalswap |-> 0, freeswap |-> 0, totalhigh |-> 0, freehigh |-> 0,
     mem_unit |-> 0, procs |-> 0, uptime |-> 0]

IdleMem == [pc |-> "idle", ret |-> G_OK, meminfo |-> ZeroSysInfo]

\* The process as main() finds it: the record zeroed, no thread created.
Init ==
    /\ gimli = ZeroGimli
    /\ spill = [k \in SpillIdx |-> ZeroEntry]
    /\ overrun = FALSE
    /\ mineCpu = IdleCpu
    /\ mineLoad = IdleLoad
    /\ mineNet = IdleNet
    /\ mineMem = IdleMem
    /\ cycles = {<<>>}
    /\ mainPc = "create_cpu"
    /\ ncpu \in 1..MaxCores
    /\ conn = [h \in Handlers |-> IdleConn]
    /\ localfd = 0
    /\ watch = "none"
    /\ fill = IdleFill
    /\ rx = IdleRx

\* Startup, the listener and the handlers, with the interface list still
\* empty: of the samplers, their creation and gimli_mine_cpu's first statement.
Next ==
    \/ MainCreateCpu \/ MainCreateLoad \/ MainCreateMeminfo \/ MainCreateNetif
    \/ Listen
    \/ CpuInit
    \/ \E h \in Handlers : Handler(h)

Spec == Init /\ [][Next]_vars

\* The process serving, every thread started, no sampling cycle made yet, and
\* all connections but the last n already over, each ended by a failed recv().
ServingLast(n) ==
    /\ ncpu = MaxCores
    /\ gimli = [ZeroGimli EXCEPT !.cores = ncpu]
    /\ spill = [k \in SpillIdx |-> ZeroEntry]
    /\ overrun = FALSE
    /\ mineCpu = [IdleCpu EXCEPT !.pc = "poll1"]
    /\ mineLoad = [IdleLoad EXCEPT !.pc = "call"]
    /\ mineNet = [IdleNet EXCEPT !.pc = "call"]
    /\ mineMem = [IdleMem EXCEPT !.pc = "call"]
    /\ cycles = {<<>>}
    /\ mainPc = "accept"
    /\ conn = [h \in Handlers |->
                 IF h > MaxConns - n THEN IdleConn
                 ELSE [IdleConn EXCEPT !.pc = "done", !.calls = <<"recv">>,
                                       !.own = h, !.open = TRUE]]
    /\ localfd = MaxConns - n

\* The process serving with one connection still to come.
Serving == ServingLast(1) /\ watch = "none" /\ fill = IdleFill /\ rx = IdleRx

\* The process serving with two connections still to come.
ServingTwo ==
    ServingLast(2) /\ watch = "none" /\ fill = IdleFill /\ rx = IdleRx

\* The NetIf sampler against a handler.
NextNet ==
    \/ NetCall \/ NetZero \/ NetIfname \/ NetIpv4 \/ NetIncr \/ NetSleep
    \/ \E h \in Handlers : Handler(h) \/ NetLoop(h)

SpecNet == Serving /\ [][NextNet]_vars

\* The CPU sampler.
NextCpu == CpuPoll1 \/ CpuSleep \/ CpuPoll2 \/ CpuCalc \/ CpuLoop

SpecCpu == Serving /\ [][NextCpu]_vars

\* The Load sampler.
NextLoad == LoadCall \/ LoadSleep

SpecLoad == Serving /\ [][NextLoad]_vars

\* The Memory sampler against a handler, with the interface list still empty.
NextMem ==
    \/ MemCall \/ MemStoreRam \/ MemStoreProcs \/ MemStoreUptime \/ MemSleep
    \/ \E h \in Handlers : Handler(h)

SpecMem == Serving /\ [][NextMem]_vars

\* Two handlers, with the snapshot as the started process first holds it.
NextServe == \E h \in Handlers : Handler(h)

SpecServe == ServingTwo /\ [][NextServe]_vars

\* The four samplers, each followed on its own: none reads what another
\* writes, so the steps of one do not depend on where the others are.
ServingWatched ==
    /\ ServingLast(0) /\ watch \in {"cpu", "load", "mem", "net"}
    /\ fill = IdleFill /\ rx = IdleRx

NextWatched ==
    \/ watch = "cpu" /\ NextCpu
    \/ watch = "load" /\ NextLoad
    \/ watch = "mem" /\ (MemCall \/ MemStoreRam \/ MemStoreProcs
                            \/ MemStoreUptime \/ MemSleep)
    \/ watch = "net" /\ (NetCall \/ NetZero \/ NetIfname \/ NetIpv4
                            \/ NetIncr \/ NetSleep)

\* A sampler that is back in its loop, or whose sleep is over, is scheduled
\* in the end.
SpecWatched ==
    /\ ServingWatched /\ [][NextWatched]_vars
    /\ WF_vars(watch = "cpu" /\ CpuLoop)
    /\ WF_vars(watch = "load" /\ LoadSleep)
    /\ WF_vars(watch = "mem" /\ MemSleep)
    /\ WF_vars(watch = "net" /\ NetSleep)

\* handle_request about to render the interface list of a snapshot with any
\* number of entries the NetIf sampler counts.
Filling ==
    /\ ServingLast(0)
    /\ watch = "none"
    /\ \E n \in 0..MaxIfaces : fill = [IdleFill EXCEPT !.pc = "open", !.netifs = n]
    /\ rx = IdleRx

NextFill == FillOpen \/ FillEntry \/ FillSep \/ FillClose

SpecFill == Filling /\ [][NextFill]_vars

\* handle_connection at its recv(), for every length recv() can return.
Receiving ==
    /\ ServingLast(0)
    /\ watch = "none"
    /\ fill = IdleFill
    /\ rx = [IdleRx EXCEPT !.pc = "recv"]

NextRx == RxRecv \/ RxTrim

SpecRx == Receiving /\ [][NextRx]_vars

\* Startup, the accept loop with every value accept() returns, and the handlers.
NextListen == Next \/ AcceptFail \/ AcceptZero

SpecListen == Init /\ [][NextListen]_vars

\* ================================================================ claims

\* The interface entries of a rendered body, in order.
RECURSIVE RenderedList(_)
RenderedList(out) ==
    IF Len(out) < 4 THEN <<>>
    ELSE IF Head(out) = "\"ifname\":\""
         THEN <<[ifname |-> out[2], ipv4 |-> out[4]]>>
              \o RenderedList(SubSeq(out, 5, Len(out)))
         ELSE RenderedList(Tail(out))

\* handle_request has returned in handler h, which holds the body in output.
Rendered(h) == conn[h].pc \in {"send", "close"}

\* Text buf begins with text p.
BeginsWith(buf, p) == Len(buf) >= Len(p) /\ SubSeq(buf, 1, Len(p)) = p

\* C1: every interface array a handler renders, for /net or the aggregate, is
\* the complete list of one sampling cycle (or the empty list the process
\* starts with): never part of a list, never entries of two cycles.
C1_NoTornRead ==
    \A h \in Handlers :
        (Rendered(h) /\ conn[h].route \in {"net", "root"})
            => RenderedList(conn[h].output) \in cycles

\* C2: when get_cpu_util has read two samples that are equal in all five
\* fields, it returns G_FAIL and leaves the five cpu percentages as they were.
C2_ZeroDeltaFails ==
    [][(mineCpu.pc = "calc" /\ mineCpu'.pc = "loop" /\ mineCpu.old = mineCpu.new)
          => (mineCpu'.ret = G_FAIL /\ gimli'.cpu = gimli.cpu)]_vars

\* Five terms, each quotient off by at most half a unit before the factor 100.
Epsilon == 5 * 50

Abs(x) == IF x < 0 THEN 0 - x ELSE x

\* Each percentage is a number in [0,100] and the five sum to 100 within Epsilon.
PercentOk(c) ==
    /\ \A k \in CpuIdx : ~c[k].nan /\ 0 <= c[k].v /\ c[k].v <= 100 * Unit
    /\ Abs(c["CPU_USER"].v + c["CPU_NICE"].v + c["CPU_SYSTEM"].v
           + c["CPU_IDLE"].v + c["CPU_IOWAIT"].v - 100 * Unit) <= Epsilon

\* C3: when get_cpu_util has returned G_OK for two samples that differ, the five
\* percentages it stored each lie in [0,100] and sum to 100 within rounding,
\* also when a counter went down between the samples.
C3_PercentagesInRange ==
    (mineCpu.pc = "loop" /\ mineCpu.ret = G_OK /\ mineCpu.old # mineCpu.new)
        => PercentOk(gimli.cpu)

\* C3 witness: get_cpu_util has returned G_OK for two samples of which the
\* second has a smaller counter, and a share that does not divide evenly.
C3_Witness ==
    /\ mineCpu.pc = "loop" /\ mineCpu.ret = G_OK
    /\ mineCpu.new.u < mineCpu.old.u
    /\ mineCpu.new.i > mineCpu.old.i
    /\ mineCpu.new.s > mineCpu.old.s
    /\ gimli.cpu["CPU_USER"].v > 0
    /\ gimli.cpu["CPU_USER"].v * 3 # 100 * Unit

\* C4: a get_loadavg call that returns G_FAIL because the source was not read
\* or fewer than two values were converted leaves the three load values as
\* they were.
C4_FailedReadKeepsLoad ==
    [][(mineLoad.pc = "call" /\ mineLoad'.pc = "sleep" /\ mineLoad'.ret = G_FAIL
        /\ (~mineLoad'.read \/ Sscanf(mineLoad'.line, 3) < 2))
          => gimli'.load = gimli.load]_vars

\* C5: after a get_netif cycle that returned G_FAIL, the snapshot's interface
\* count and entries are those it had when the cycle started.
C5_FailedCycleKeepsList ==
    (mineNet.pc = "sleep" /\ mineNet.ret = G_FAIL) => SnapshotList = mineNet.pre

\* C6: the interface count never exceeds the capacity of gimli.net[] and no
\* entry is ever stored past its end.
C6_WithinCapacity == gimli.netifs <= MAX_NETIFS /\ ~overrun

\* C7: after a get_netif cycle that returned G_OK, the snapshot's interface list
\* is exactly the enumerated AF_INET nodes, in enumeration order.
C7_ListIsIpv4Nodes ==
    (mineNet.pc = "sleep" /\ mineNet.ret = G_OK)
        => SnapshotList = Ipv4List(mineNet.ifaddr)

\* The seven endpoint prefixes.
EndpointPrefixes ==
    {GET_CPU, GET_LOAD, GET_UPTIME, GET_PROCS, GET_CORES, GET_NET, GET_ROOT}

\* C8: a request that begins with none of the seven endpoint prefixes is
\* answered with the error object and nothing else.
C8_UnmatchedIsError ==
    \A h \in Handlers :
        (Rendered(h) /\ \A p \in EndpointPrefixes : ~BeginsWith(conn[h].buf, p))
            => conn[h].output = ERR_BODY

\* The body holds every key of the aggregate object.
IsAggregate(out) ==
    \A key \in {"{\n    \"cpu\": {\n        ", "\n    },\n    \"load\": [",
                "],\n    \"uptime\": [", "],\n    \"procs\": ",
                ",\n    \"cores\": ", "    \"netifs\": ["} :
        \E k \in DOMAIN out : out[k] = key

GET_SLASH == <<"G","E","T"," ","/">>

\* C9 as stated: every request that begins with "GET /" and with none of the
\* six specific prefixes is answered with the aggregate object.
C9_CatchAll ==
    \A h \in Handlers :
        (/\ Rendered(h)
         /\ BeginsWith(conn[h].buf, GET_SLASH)
         /\ \A p \in EndpointPrefixes \ {GET_ROOT} : ~BeginsWith(conn[h].buf, p))
            => IsAggregate(conn[h].output)

\* The characters of a prefix that handle_request compares: all but the last.
Compared(p) == SubSeq(p, 1, Len(p) - 1)

\* C9 amended: the aggregate object is the answer exactly to the requests
\* that begin with "GET / HTT", and a request that begins with "GET /" and
\* passes none of the seven comparisons is answered with the error object.
C9_AggregateOnlyForRoot ==
    \A h \in Handlers :
        Rendered(h) =>
            /\ IsAggregate(conn[h].output)
                 <=> BeginsWith(conn[h].buf, Compared(GET_ROOT))
            /\ (/\ BeginsWith(conn[h].buf, GET_SLASH)
                /\ \A p \in EndpointPrefixes :
                       ~BeginsWith(conn[h].buf, Compared(p)))
                   => conn[h].output = ERR_BODY

\* C9 witness: one handler has answered "GET / HTTP/1.1" with the aggregate
\* object and another "GET /unknown" with the error object.
C9_Witness ==
    \E h1, h2 \in Handlers :
        /\ Rendered(h1) /\ Rendered(h2)
        /\ BeginsWith(conn[h1].buf, GET_ROOT) /\ IsAggregate(conn[h1].output)
        /\ conn[h2].buf = <<"G","E","T"," ","/","u","n","k","n","o","w","n">>
        /\ conn[h2].output = ERR_BODY

\* C10: any two renderings of /cores in one run show the same core count.
C10_CoresIdempotent ==
    \A h1, h2 \in Handlers :
        (/\ Rendered(h1) /\ conn[h1].route = "cores"
         /\ Rendered(h2) /\ conn[h2].route = "cores")
            => conn[h1].output = conn[h2].output

\* The number a decimal numeral spells.
Numeral(p) == CHOOSE n \in 0..999 : ToString(n) = p

\* The number a run of numerals spells when read as one decimal number.
RECURSIVE Decimal(_, _)
Decimal(acc, ps) ==
    IF ps = <<>> THEN acc
    ELSE Decimal(acc * (10 ^ Len(Head(ps))) + Numeral(Head(ps)), Tail(ps))

\* The numbers of a comma-separated run of numerals.
RECURSIVE Numbers(_, _)
Numbers(run, ps) ==
    IF ps = <<>> THEN <<Decimal(0, run)>>
    ELSE IF Head(ps) = ", " THEN <<Decimal(0, run)>> \o Numbers(<<>>, Tail(ps))
    ELSE Numbers(Append(run, Head(ps)), Tail(ps))

\* The numbers of the uptime array of a rendered body.
UptimeArray(out) ==
    LET from == CHOOSE k \in DOMAIN out :
                    out[k] \in {"{\"uptime\":[", "],\n    \"uptime\": ["}
        to   == CHOOSE k \in DOMAIN out :
                    /\ k > from
                    /\ out[k] \in {"]}\r\n", "],\n    \"procs\": "}
                    /\ \A j \in (from + 1)..(k - 1) :
                           out[j] \notin {"]}\r\n", "],\n    \"procs\": "}
    IN  Numbers(<<>>, SubSeq(out, from + 1, to - 1))

FullCalls == <<"recv", "send preamble", "send body", "close">>

\* The body handle_request produces for request buf while the interface list
\* is empty.
BodyFor(buf) ==
    LET r == Route(buf)
    IN  IF r \in {"net", "root"} THEN Append(Render(r), NetClosing(r))
        ELSE Render(r)

\* C12: a handler's calls on its descriptor are, in this order and each once,
\* one recv, the send of the preamble, the send of one body, the close: no
\* body before the preamble, nothing after the close; the body it sends is
\* the one handle_request produced from the request it received; and a
\* handler whose recv returned data and whose sends succeeded ends closed.
C12_OneRequestInOrder ==
    \A h \in Handlers :
        LET c == conn[h] IN
        /\ \E n \in 0..4 : c.calls = SubSeq(FullCalls, 1, n)
        /\ c.pc \in {"idle", "start", "recv"} => c.calls = <<>>
        /\ c.pc = "preamble" => c.calls = SubSeq(FullCalls, 1, 1)
        /\ c.pc \in {"route", "net_test", "send"} => c.calls = SubSeq(FullCalls, 1, 2)
        /\ c.pc = "close" => c.calls = SubSeq(FullCalls, 1, 3)
        /\ c.pc \in {"send", "close"} => c.output = BodyFor(c.buf)
        /\ (c.pc = "done" /\ Len(c.calls) >= 3) => c.calls = FullCalls

\* C12 witness: a handler has received a request, sent the preamble and the
\* body and closed, while another has sent its body and is about to close.
C12_Witness ==
    \E h1, h2 \in Handlers :
        /\ conn[h1].pc = "done" /\ conn[h1].calls = FullCalls
        /\ conn[h2].pc = "close" /\ conn[h2].output = BodyFor(conn[h2].buf)

\* Handler h is between its first statement and its return.
Serves(h) == conn[h].pc \notin {"idle", "start", "done"}

\* C13: every handler works on the descriptor of the connection it was
\* created for, and no two handlers at work hold the same descriptor.
C13_OwnDescriptor ==
    /\ \A h \in Handlers : Serves(h) => conn[h].fd = conn[h].own
    /\ \A h1, h2 \in Handlers :
           (h1 # h2 /\ Serves(h1) /\ Serves(h2)) => conn[h1].fd # conn[h2].fd

\* C14: from the accept loop the listener only ever goes back to the accept
\* loop, whatever accept() returned; and the process exits with status 1
\* only from socket/bind/listen, with no connection accepted.
C14_ListenerStays ==
    [][/\ mainPc = "accept" => mainPc' = "accept"
       /\ mainPc' = "exit1" =>
             (mainPc = "socket" /\ \A h \in Handlers : conn[h].pc = "idle")]_vars

\* C20: a handler that has returned has left its connection's descriptor
\* closed, and the open connection descriptors are never more than the
\* handlers that have not returned.
C20_ClosedOnEveryExit ==
    /\ \A h \in Handlers : conn[h].pc = "done" => ~conn[h].open
    /\ Cardinality({h \in Handlers : conn[h].open})
          <= Cardinality({h \in Handlers : conn[h].pc \notin {"idle", "done"}})

\* C15: no step of a sampler ends the process or the sampler.  When
\* get_cpu_util has returned, with G_FAIL or G_OK, gimli_mine_cpu calls it
\* again and nothing else comes between, so that a failure of the first
\* poll is followed by the next first poll with no usleep; when get_loadavg,
\* get_meminfo or get_netif has returned, with G_FAIL or G_OK, the sampler
\* sleeps and is then at its next call.
C15_SamplersNeverStop ==
    /\ [](Running)
    /\ [][/\ mineCpu.pc = "loop" => mineCpu'.pc \in {"loop", "poll1"}
          /\ (mineCpu.pc = "poll1" /\ mineCpu'.pc # "poll1")
                => \/ mineCpu'.pc = "loop" /\ mineCpu'.ret = G_FAIL
                   \/ mineCpu'.pc = "sleep"
          /\ mineLoad.pc = "sleep" => mineLoad'.pc \in {"sleep", "call"}
          /\ mineMem.pc = "sleep" => mineMem'.pc \in {"sleep", "call"}
          /\ mineNet.pc = "sleep" => mineNet'.pc \in {"sleep", "call"}
          /\ (mineLoad.pc = "call" /\ mineLoad'.pc # "call") => mineLoad'.pc = "sleep"]_vars
    /\ (mineCpu.pc = "loop" ~> mineCpu.pc = "poll1")
    /\ (mineLoad.pc = "sleep" ~> mineLoad.pc = "call")
    /\ (mineMem.pc = "sleep" ~> mineMem.pc = "call")
    /\ (mineNet.pc = "sleep" ~> mineNet.pc = "call")

\* C15 witness: get_cpu_util failed in its first poll and gimli_mine_cpu is
\* at the next first poll.
C15_Witness ==
    /\ watch = "cpu"
    /\ mineCpu.pc = "poll1" /\ mineCpu.ret = G_FAIL
    /\ mineCpu.old = ZeroSample

\* C16: whatever the number of interfaces in the snapshot and whatever the
\* names and addresses stored, the text handle_request has written for
\* `/net` or for the aggregate, with its terminator, is inside output[].
C16_OutputFits ==
    /\ fill.pc # "overrun"
    /\ fill.len + 1 <= OutputSize

\* C17: a step of handle_connection or handle_request, whatever the request
\* and whatever the snapshot holds, leaves every field of the snapshot as it
\* was; the steps that change a field are steps of a sampler.
C17_RequestKeepsSnapshot ==
    [][(\E h \in Handlers : conn'[h] # conn[h])
          => (gimli' = gimli /\ spill' = spill /\ overrun' = overrun)]_vars

\* C17 witness: a handler has rendered a request from a snapshot the Memory
\* sampler has written, and is about to send the body.
C17_Witness ==
    \E h \in Handlers :
        /\ conn[h].pc = "send"
        /\ conn[h].route \in {"procs", "root"}
        /\ gimli.procs > 0 /\ gimli.uptime > 0

\* The six specific endpoints in the order handle_request tests them, each
\* with its complete prefix.
Endpoints ==
    << <<"cpu", GET_CPU>>, <<"load", GET_LOAD>>, <<"uptime", GET_UPTIME>>,
       <<"procs", GET_PROCS>>, <<"cores", GET_CORES>>, <<"net", GET_NET>> >>

\* C18: a request rendered as one of the six specific endpoints begins with
\* that endpoint's complete prefix and with the complete prefix of no
\* endpoint tested before it; "GET /cpx" is not rendered as the cpu object.
C18_CompletePrefix ==
    \A h \in Handlers : \A k \in DOMAIN Endpoints :
        (Rendered(h) /\ conn[h].route = Endpoints[k][1])
            => /\ BeginsWith(conn[h].buf, Endpoints[k][2])
               /\ \A j \in 1..(k - 1) : ~BeginsWith(conn[h].buf, Endpoints[j][2])

\* C19: for every length from 1 to sizeof (buf) that recv() returns, the
\* terminator is stored at an index of buf, 0 to sizeof (buf) - 1: in place
\* of the last byte when that is a newline, after the last byte otherwise.
C19_TerminatorInside ==
    rx.pc = "trimmed"
        => /\ rx.nul \in 0..(BufSize - 1)
           /\ rx.nul = IF rx.last = "\n" THEN rx.len - 1 ELSE rx.len

====
